---- MODULE Spec2Model ----
(***************************************************************************)
(* A model of resources/PyQt5LayoutGeneration/layoutGeneration.py: the     *)
(* declarative layout builder (AutoLayoutItem, AutoLayout and its box and  *)
(* grid subclasses) and the bulk accessors get_ / set_.                    *)
(*                                                                         *)
(* Python values are tagged records [ty |-> <runtime type>, ...]; objects  *)
(* with identity (widgets) are [ty |-> <class>, id |-> <heap index>] and   *)
(* their mutable state lives in the heap.  A constructor call is one       *)
(* action; what it does, in order, is kept in the log.                     *)
(***************************************************************************)
EXTENDS Integers, Sequences, FiniteSets, TLC

VARIABLES
    call,      \* the pending constructor call [cls, args], as the caller wrote it
    phase,     \* "ready" | "built" | "failed"
    root,      \* the composite returned to the caller (None until built)
    heap,      \* the widget objects, by id
    log,       \* what the build did, in order
    exc,       \* the exception the last call raised to the caller
    out,       \* what the last get_ returned (None after a set_)
    sent,      \* the values of the last set_ call
    before,    \* what get_ would have returned just before the last set_
    nsets      \* number of set_ calls made so far

vars == <<call, phase, root, heap, log, exc, out, sent, before, nsets>>

----------------------------------------------------------------------------
(* Python values *)

None == [ty |-> "NoneType"]
PyStr(s) == [ty |-> "str", v |-> s]
PyInt(n) == [ty |-> "int", v |-> n]
PyBool(b) == [ty |-> "bool", v |-> b]
PyFloat(n) == [ty |-> "float", v |-> n]
PyList(xs) == [ty |-> "list", v |-> xs]
PyDict(d) == [ty |-> "dict", v |-> d]
PyFn(f) == [ty |-> "function", v |-> f]
Obj(cls, id) == [ty |-> cls, id |-> id]

\* what a call of the caller's function f returns: an opaque value of f's
UserResult(f) == [ty |-> "result", of |-> f]

Truthy(x) ==
    CASE x.ty = "NoneType" -> FALSE
      [] x.ty = "str" -> x.v # ""
      [] x.ty = "int" -> x.v # 0
      [] x.ty = "float" -> x.v # 0
      [] x.ty = "bool" -> x.v
      [] x.ty = "list" -> x.v # <<>>
      [] x.ty = "dict" -> DOMAIN x.v # {}
      [] OTHER -> TRUE

\* the classes of the toolkit that are widgets (isinstance(x, gui.QWidget))
WidgetClasses ==
    {"QLabel", "QLineEdit", "QPlainTextEdit", "QRadioButton", "QCheckBox",
     "QComboBox", "QListWidget", "QSpinBox", "QDoubleSpinBox", "QPushButton"}

IsInstance(x, t) ==
    CASE t = "QWidget" -> x.ty \in WidgetClasses
      [] t = "int" -> x.ty \in {"int", "bool"}
      [] OTHER -> x.ty = t

\* exceptions
NoExc == [exc |-> "none", msg |-> ""]
Raise(e, m) == [exc |-> e, msg |-> m]

\* insertion-ordered dicts with string keys: sequences of [k, v]
DKeys(d) == {d[i].k : i \in 1..Len(d)}
DHas(d, k) == k \in DKeys(d)
DGet(d, k) == d[CHOOSE i \in 1..Len(d) : d[i].k = k].v
DSet(d, k, v) ==
    IF DHas(d, k)
    THEN [i \in 1..Len(d) |-> IF d[i].k = k THEN [k |-> k, v |-> v] ELSE d[i]]
    ELSE Append(d, [k |-> k, v |-> v])

----------------------------------------------------------------------------
(* the heap of widget objects *)

\* a widget: its class, the capabilities it exposes itself (a subset of
\* {"get", "set", "changed"}), its toolkit state (val, items) and the
\* accessors add_item attached to it; ostore / dstore hold what the widget's
\* own set and the descriptor's set function were last given
NewWidget(cls, own, val, items) ==
    [cls |-> cls, own |-> own, val |-> val, items |-> items,
     get_ |-> [src |-> "unset"], set_ |-> [src |-> "unset"],
     changed_ |-> [src |-> "unset"], ostore |-> None, dstore |-> None]

\* gui.QLabel(text): a new label object
NewLabel(text) == NewWidget("QLabel", {}, text, <<>>)

\* PROPERTIES: which accessors the table holds for a class
PROPERTIES ==
    [QLabel |-> {"get", "set"},
     QLineEdit |-> {"get", "set", "changed"},
     QPlainTextEdit |-> {"get", "set", "changed"},
     QRadioButton |-> {"get", "set", "changed"},
     QCheckBox |-> {"get", "set", "changed"},
     QComboBox |-> {"get", "set", "changed"},
     QListWidget |-> {"get", "set", "changed"},
     QSpinBox |-> {"get", "set", "changed"},
     QDoubleSpinBox |-> {"get", "set", "changed"}]

InProperties(cls, kind) == cls \in DOMAIN PROPERTIES /\ kind \in PROPERTIES[cls]

make_bool(value) == IF value.ty = "str" THEN value.v = "True" ELSE Truthy(value)

\* the decimal strings of the model and the numbers they denote
Decimal == [s \in {"0", "1", "2"} |-> CASE s = "0" -> 0 [] s = "1" -> 1 [] s = "2" -> 2]

\* int(value) / float(value): [exc, n]
ToNumber(value) ==
    CASE value.ty \in {"int", "float"} -> [exc |-> NoExc, n |-> value.v]
      [] value.ty = "bool" -> [exc |-> NoExc, n |-> IF value.v THEN 1 ELSE 0]
      [] value.ty = "str" ->
           IF value.v \in DOMAIN Decimal
           THEN [exc |-> NoExc, n |-> Decimal[value.v]]
           ELSE [exc |-> Raise("ValueError", "invalid literal"), n |-> 0]
      [] OTHER -> [exc |-> Raise("TypeError", "argument must be a string or a number"), n |-> 0]

\* findText / findItems(MatchExactly): the 0-based indexes of the entries equal to s
Find(items, s) == {i - 1 : i \in {j \in 1..Len(items) : items[j] = s}}
Min(S) == CHOOSE x \in S : \A y \in S : x <= y

\* PROPERTIES[cls]['get'](widget)
TableGet(o) ==
    CASE o.cls \in {"QLabel", "QLineEdit", "QPlainTextEdit"} -> PyStr(o.val)
      [] o.cls \in {"QRadioButton", "QCheckBox"} -> PyBool(o.val)
      [] o.cls = "QComboBox" ->
           IF o.val = -1 THEN PyStr("") ELSE PyStr(o.items[o.val + 1])
      [] o.cls = "QListWidget" ->
           IF o.val = -1 THEN None
           ELSE [ty |-> "QListWidgetItem", text |-> o.items[o.val + 1]]
      [] o.cls = "QSpinBox" -> PyInt(o.val)
      [] o.cls = "QDoubleSpinBox" -> PyFloat(o.val)

\* PROPERTIES[cls]['set'](widget, value): [exc, o]
TableSet(o, value) ==
    CASE o.cls \in {"QLabel", "QLineEdit", "QPlainTextEdit"} ->
           IF value.ty = "str" THEN [exc |-> NoExc, o |-> [o EXCEPT !.val = value.v]]
           ELSE [exc |-> Raise("TypeError", "setText: unexpected type"), o |-> o]
      [] o.cls \in {"QRadioButton", "QCheckBox"} ->
           [exc |-> NoExc, o |-> [o EXCEPT !.val = make_bool(value)]]
      [] o.cls = "QComboBox" ->
           IF value.ty # "str"
           THEN [exc |-> Raise("TypeError", "findText: unexpected type"), o |-> o]
           ELSE LET found == Find(o.items, value.v)
                IN  [exc |-> NoExc,
                     o |-> [o EXCEPT !.val = IF found = {} THEN -1 ELSE Min(found)]]
      [] o.cls = "QListWidget" ->
           IF value.ty # "str"
           THEN [exc |-> Raise("TypeError", "findItems: unexpected type"), o |-> o]
           ELSE LET found == Find(o.items, value.v)
                IN  IF found = {}
                    THEN [exc |-> Raise("IndexError", "list index out of range"), o |-> o]
                    ELSE [exc |-> NoExc, o |-> [o EXCEPT !.val = Min(found)]]
      [] o.cls \in {"QSpinBox", "QDoubleSpinBox"} ->
           LET n == ToNumber(value)
           IN  IF n.exc # NoExc THEN [exc |-> n.exc, o |-> o]
               ELSE [exc |-> NoExc, o |-> [o EXCEPT !.val = n.n]]

----------------------------------------------------------------------------
(* AutoLayoutItem: parsing one literal *)

\* the all-caps keys of the model's alphabet and their str.lower()
Lower ==
    [WIDGET |-> "widget", STRETCH |-> "stretch", VBOXLAYOUT |-> "vboxlayout",
     HBOXLAYOUT |-> "hboxlayout", FORMLAYOUT |-> "formlayout",
     GRIDLAYOUT |-> "gridlayout", LAYOUT |-> "layout", SPACER |-> "spacer"]

\* k.isupper()
IsUpper(k) == k \in DOMAIN Lower

\* 'layout' in item.type
ContainsLayout(t) ==
    t \in {"vboxlayout", "hboxlayout", "formlayout", "gridlayout", "layout"}

\* AutoLayoutItem.__init__: the attributes before _parse
AutoLayoutItem == [type |-> None, item |-> None, name |-> None, init |-> None]

\* AutoGridLayoutItem.__init__
AutoGridLayoutItem ==
    [type |-> None, item |-> None, name |-> None, init |-> None,
     row |-> None, col |-> None, align |-> None, label |-> None]

\* setattr(self, k, v) for every key of the dict
SetAttrs(attrs, d) ==
    [k \in DOMAIN attrs \cup DOMAIN d |-> IF k \in DOMAIN d THEN d[k] ELSE attrs[k]]

\* keylist = [k for k in item.keys() if k.isupper()]
KeyList(d) == {k \in DOMAIN d : IsUpper(k)}

\* a variant that reads a record without exactly one upper-case key as a null
ParseLenient(attrs, item, hp) ==
    IF item.ty = "NoneType" \/ (item.ty = "dict" /\ Cardinality(KeyList(item.v)) # 1)
    THEN [exc |-> NoExc, item |-> [attrs EXCEPT !.type = PyStr("stretch")], heap |-> hp]
    ELSE IF item.ty = "str"
    THEN [exc |-> NoExc,
          item |-> [attrs EXCEPT !.type = PyStr("widget"),
                                 !.item = Obj("QLabel", Len(hp) + 1)],
          heap |-> Append(hp, NewLabel(item.v))]
    ELSE IF item.ty = "dict"
    THEN [exc |-> NoExc,
          item |-> SetAttrs([attrs EXCEPT
                                 !.type = PyStr(Lower[CHOOSE k \in KeyList(item.v) : TRUE]),
                                 !.item = item.v[CHOOSE k \in KeyList(item.v) : TRUE]],
                            item.v),
          heap |-> hp]
    ELSE [exc |-> Raise("TypeError", item.ty), item |-> attrs, heap |-> hp]

\* AutoLayoutItem._parse: [exc, item, heap]
Parse(attrs, item, hp) ==
    IF item.ty = "NoneType"
    THEN [exc |-> NoExc, item |-> [attrs EXCEPT !.type = PyStr("stretch")], heap |-> hp]
    ELSE IF item.ty = "str"
    THEN [exc |-> NoExc,
          item |-> [attrs EXCEPT !.type = PyStr("widget"),
                                 !.item = Obj("QLabel", Len(hp) + 1)],
          heap |-> Append(hp, NewLabel(item.v))]
    ELSE IF item.ty = "dict"
    THEN LET keylist == KeyList(item.v)
         IN  IF Cardinality(keylist) # 1
             THEN [exc |-> Raise("ValueError", "Must have exactly one key in all caps for item type"),
                   item |-> attrs, heap |-> hp]
             ELSE LET key == CHOOSE k \in keylist : TRUE
                  IN  [exc |-> NoExc,
                       item |-> SetAttrs([attrs EXCEPT !.type = PyStr(Lower[key]),
                                                       !.item = item.v[key]],
                                         item.v),
                       heap |-> hp]
    ELSE [exc |-> Raise("TypeError", item.ty), item |-> attrs, heap |-> hp]

\* items = [item_type(item) for item in items]: [exc, items, heap]
RECURSIVE ParseAll(_, _, _)

ParseCons(first, rest) ==
    [exc |-> rest.exc, items |-> <<first.item>> \o rest.items, heap |-> rest.heap]

ParseRest(attrs, tail, first) ==
    IF first.exc # NoExc
    THEN [exc |-> first.exc, items |-> <<>>, heap |-> first.heap]
    ELSE ParseCons(first, ParseAll(attrs, tail, first.heap))

ParseAll(attrs, items, hp) ==
    IF items = <<>> THEN [exc |-> NoExc, items |-> <<>>, heap |-> hp]
    ELSE ParseRest(attrs, Tail(items), Parse(attrs, Head(items), hp))

----------------------------------------------------------------------------
(* validation *)

\* ITEM_ATTRIBUTES: per item type, the attributes it needs and their types
ITEM_ATTRIBUTES ==
    [stretch |-> <<>>,
     widget |-> <<[k |-> "item", t |-> "QWidget"]>>,
     vboxlayout |-> <<[k |-> "item", t |-> "list"]>>,
     hboxlayout |-> <<[k |-> "item", t |-> "list"]>>,
     formlayout |-> <<[k |-> "item", t |-> "list"]>>,
     gridlayout |-> <<[k |-> "item", t |-> "list"]>>,
     form_element |-> <<[k |-> "label", t |-> "str"]>>,
     grid_element |-> <<[k |-> "row", t |-> "int"], [k |-> "col", t |-> "int"]>>]

\* AutoLayout.validate_item: the exception it raises, or NoExc
RECURSIVE validate_item(_, _)
validate_item(item, attributes) ==
    IF attributes = <<>> THEN NoExc
    ELSE LET a == Head(attributes)
         IN  IF a.k \notin DOMAIN item
             THEN Raise("AttributeError", a.k)     \* getattr fails; only KeyError is caught
             ELSE IF ~IsInstance(item[a.k], a.t)
             THEN Raise("ValueError", "Invalid type provided for attribute")
             ELSE validate_item(item, Tail(attributes))

----------------------------------------------------------------------------
(* AutoLayout: composing the tree *)

\* A composite is [ty, form, names, children].  The operators below take
\* and return a build state st = [self, heap, log, exc]: the composite
\* under construction, the heap, the log and the exception in flight.

Event(ev, obj) == [ev |-> ev, obj |-> obj]
Logged(st, ev, obj) == [st EXCEPT !.log = Append(@, Event(ev, obj))]
Raised(st, e) == [st EXCEPT !.exc = e]

\* a variant that records no spacer
addStretchNothing(st, args) == st

\* QBoxLayout.addStretch(stretch) on a box; on a grid the toolkit class has
\* no addStretch and AutoLayout's placeholder is found, which does nothing
addStretch(st, args) ==
    IF st.self.ty \in {"AutoGridLayout", "AutoFormLayout"} THEN st
    ELSE IF Len(args) > 1
    THEN Raised(st, Raise("TypeError", "addStretch: too many arguments"))
    ELSE Logged([st EXCEPT !.self.children =
                     Append(@, [what |-> "stretch", obj |-> None, args |-> args])],
                "stretch", None)

\* QBoxLayout.addWidget / QGridLayout.addWidget
addWidget(st, widget, args) ==
    Logged([st EXCEPT !.self.children =
                Append(@, [what |-> "widget", obj |-> widget, args |-> args])],
           "attach", widget)

\* QBoxLayout.addLayout / QGridLayout.addLayout
addLayout(st, layout, args) ==
    Logged([st EXCEPT !.self.children =
                Append(@, [what |-> "layout", obj |-> layout, args |-> args])],
           "attach", layout)

\* a variant that prefers the table entry of the class to the payload's own accessor
ResolveAccessorTableFirst(item, o, kind, cur) ==
    IF kind \in DOMAIN item THEN [src |-> "item", fn |-> item[kind]]
    ELSE IF InProperties(o.cls, kind) THEN [src |-> "PROPERTIES"]
    ELSE IF kind \in o.own THEN [src |-> "own"]
    ELSE cur

\* the accessor add_item attaches to the payload for one kind ("get", "set"
\* or "changed"); cur is what the payload carries already
ResolveAccessor(item, o, kind, cur) ==
    IF kind \in DOMAIN item THEN [src |-> "item", fn |-> item[kind]]
    ELSE IF kind \in o.own THEN [src |-> "own"]
    ELSE IF InProperties(o.cls, kind) THEN [src |-> "PROPERTIES"]
    ELSE cur

\* add_item, lines 186-211: set get_ / set_ / changed_ on the payload
ResolveAll(item, o) ==
    [o EXCEPT !.get_ = ResolveAccessor(item, o, "get", o.get_),
              !.set_ = ResolveAccessor(item, o, "set", o.set_),
              !.changed_ = ResolveAccessor(item, o, "changed", o.changed_)]

\* hasattr(x, 'names')
HasNames(x) == "names" \in DOMAIN x

\* a variant that passes a named composite's names up as well as an unnamed one's
NewNamesSpliceAll(item) ==
    IF HasNames(item.item) THEN item.item.names
    ELSE IF Truthy(item.name) THEN <<[k |-> item.name.v, v |-> item.item]>>
    ELSE <<>>

\* add_item, lines 233-239: the names this item brings
NewNames(item) ==
    IF Truthy(item.name) THEN <<[k |-> item.name.v, v |-> item.item]>>
    ELSE IF HasNames(item.item) THEN item.item.names
    ELSE <<>>

\* a variant that lets a later definition of a name replace the earlier one
RECURSIVE MergeNamesOverwrite(_, _)
MergeNamesOverwrite(names, new_names) ==
    IF new_names = <<>> THEN [exc |-> NoExc, names |-> names]
    ELSE MergeNamesOverwrite(
             IF Head(new_names).k # ""
             THEN DSet(names, Head(new_names).k, Head(new_names).v) ELSE names,
             Tail(new_names))

\* add_item, lines 242-246: [exc, names]
RECURSIVE MergeNames(_, _)
MergeNames(names, new_names) ==
    IF new_names = <<>> THEN [exc |-> NoExc, names |-> names]
    ELSE LET e == Head(new_names)
         IN  IF e.k # "" /\ DHas(names, e.k)
             THEN [exc |-> Raise("DuplicateNameError", e.k), names |-> names]
             ELSE MergeNames(IF e.k # "" THEN DSet(names, e.k, e.v) ELSE names,
                             Tail(new_names))

\* the class add_item builds for an item type
LayoutClass(t) ==
    CASE t = "vboxlayout" -> "AutoVBoxLayout"
      [] t = "hboxlayout" -> "AutoHBoxLayout"
      [] t = "formlayout" -> "AutoFormLayout"
      [] t = "gridlayout" -> "AutoGridLayout"

\* the attributes a layout object has before its names become attributes
ExistingAttrs(self) ==
    {"layout_items", "names", "item_type", "_populate", "validate_item",
     "add_item", "get_", "set_", "addWidget", "addLayout", "addStretch"}
    \cup (IF self.ty \in {"AutoGridLayout", "AutoFormLayout"} THEN {"form"} ELSE {})

\* QGridLayout.rowCount(): one more than the highest row in use, at least 1
RowCount(children) ==
    LET rows == {children[i].args[1].v : i \in 1..Len(children)}
    IN  IF rows = {} THEN 1 ELSE 1 + (CHOOSE r \in rows : \A q \in rows : q <= r)

RECURSIVE Construct(_, _, _, _)
RECURSIVE PopulateLoop(_, _)

\* add_item, lines 229-230: item.init(item.item)
CallInit(st, item) ==
    IF ~Truthy(item.init) THEN st
    ELSE IF item.init.ty # "function"
    THEN Raised(st, Raise("TypeError", "object is not callable"))
    ELSE Logged(st, "init", [fn |-> item.init.v, arg |-> item.item])

Merged(st, merged) == [st EXCEPT !.self.names = merged.names, !.exc = merged.exc]

\* add_item, lines 232-246, reached only when init did not raise
AddNames(st, item) ==
    IF st.exc # NoExc THEN st
    ELSE Merged(st, MergeNames(st.self.names, NewNames(item)))

\* add_item, lines 186-213: resolve the accessors, then addWidget
AttachWidget(st, item, args) ==
    addWidget(Logged([st EXCEPT !.heap[item.item.id] = ResolveAll(item, @)],
                     "resolve", item.item),
              item.item, args)

\* add_item, lines 215-226, with the nested composite built (or not)
AttachBuilt(st, args, built) ==
    IF built.exc # NoExc
    THEN [st EXCEPT !.heap = built.heap, !.log = built.log, !.exc = built.exc]
    ELSE addLayout([st EXCEPT !.heap = built.heap, !.log = built.log],
                   built.self, args)

\* item.item after lines 215-222
BuiltItem(item, built) ==
    IF built.exc # NoExc THEN item ELSE [item EXCEPT !.item = built.self]

\* add_item, lines 181-226 for an item that is no stretch: [st, item]
AttachNested(st, item, args, built) ==
    [st |-> AttachBuilt(st, args, built), item |-> BuiltItem(item, built)]

Attach(st, item, args) ==
    IF item.type.v = "widget"
    THEN [st |-> AttachWidget(st, item, args), item |-> item]
    ELSE IF item.type.v = "layout"
    THEN [st |-> addLayout(st, item.item, args), item |-> item]
    ELSE IF ContainsLayout(item.type.v)
    THEN AttachNested(st, item, args,
                      Construct(LayoutClass(item.type.v), item.item.v, st.heap, st.log))
    ELSE [st |-> st, item |-> item]

\* add_item, lines 228-246
InitAndNames(att) ==
    IF att.st.exc # NoExc THEN att.st
    ELSE AddNames(CallInit(att.st, att.item), att.item)

\* AutoLayout.add_item(self, item, *args); its first statement handles a
\* raw dict, which _populate never passes
AutoLayout_add_item(st, item, args) ==
    IF item.type.v = "stretch" THEN addStretch(st, <<PyInt(1)>> \o args)
    ELSE InitAndNames(Attach(st, item, args))

\* the calls of AutoLayout.add_item that self.add_item(item) makes, as
\* [exc, heap, calls], each call an [item, args]

\* AutoBoxLayout.add_item
AutoBoxLayout_add_item(st, item) ==
    [exc |-> NoExc, heap |-> st.heap,
     calls |-> <<[item |-> item,
                  args |-> (IF "stretch" \in DOMAIN item THEN <<item.stretch>> ELSE <<>>)
                           \o (IF item.type.v = "widget" /\ "align" \in DOMAIN item
                               THEN <<item.align>> ELSE <<>>)]>>]

\* AutoGridLayout.add_item with self.form: the label, then the item beside it
FormCalls(item, label, row) ==
    [exc |-> NoExc, heap |-> label.heap,
     calls |-> <<[item |-> label.item,
                  args |-> <<PyInt(row), PyInt(0), PyStr("AlignRight|AlignTop")>>],
                 [item |-> item, args |-> <<PyInt(row), PyInt(1)>>]>>]

\* a variant that places a cell without validating it
AutoGridLayout_add_item_unchecked(st, item) ==
    IF st.self.form
    THEN FormCalls(item, Parse(AutoLayoutItem, item.label, st.heap),
                   RowCount(st.self.children))
    ELSE [exc |-> NoExc, heap |-> st.heap,
          calls |-> <<[item |-> item, args |-> <<item.row, item.col>>]>>]

\* AutoGridLayout.add_item
AutoGridLayout_add_item(st, item) ==
    IF st.self.form
    THEN IF validate_item(item, ITEM_ATTRIBUTES["form_element"]) # NoExc
         THEN [exc |-> validate_item(item, ITEM_ATTRIBUTES["form_element"]),
               heap |-> st.heap, calls |-> <<>>]
         ELSE FormCalls(item, Parse(AutoLayoutItem, item.label, st.heap),
                        RowCount(st.self.children))
    ELSE IF validate_item(item, ITEM_ATTRIBUTES["grid_element"]) # NoExc
         THEN [exc |-> validate_item(item, ITEM_ATTRIBUTES["grid_element"]),
               heap |-> st.heap, calls |-> <<>>]
         ELSE [exc |-> NoExc, heap |-> st.heap,
               calls |-> <<[item |-> item,
                            args |-> <<item.row, item.col>>
                                     \o (IF item.align.ty # "NoneType"
                                         THEN <<item.align>> ELSE <<>>)]>>]

\* the calls of AutoLayout.add_item, one after the other
RECURSIVE BaseCalls(_, _)
BaseCalls(st, calls) ==
    IF calls = <<>> \/ st.exc # NoExc THEN st
    ELSE BaseCalls(AutoLayout_add_item(st, Head(calls).item, Head(calls).args),
                   Tail(calls))

RunCalls(st, plan) ==
    IF plan.exc # NoExc THEN Raised(st, plan.exc)
    ELSE BaseCalls([st EXCEPT !.heap = plan.heap], plan.calls)

\* self.add_item(item): the method of the composite's class
add_item(st, item) ==
    RunCalls(st, IF st.self.ty \in {"AutoGridLayout", "AutoFormLayout"}
                 THEN AutoGridLayout_add_item(st, item)
                 ELSE AutoBoxLayout_add_item(st, item))

\* _populate, lines 149-152: the default validation of one item
DefaultValidation(item) ==
    IF item.type.v \in DOMAIN ITEM_ATTRIBUTES
    THEN validate_item(item, ITEM_ATTRIBUTES[item.type.v])
    ELSE NoExc                                    \* KeyError: passed over

\* _populate, lines 149-154 for one item
ValidateAndAdd(st, item, bad) ==
    IF bad # NoExc THEN Raised(st, bad) ELSE add_item(st, item)

\* _populate, lines 148-154
PopulateLoop(st, items) ==
    IF items = <<>> \/ st.exc # NoExc THEN st
    ELSE PopulateLoop(ValidateAndAdd(st, Head(items), DefaultValidation(Head(items))),
                      Tail(items))

\* _populate, lines 156-163: the exception of turning names into attributes
NamesToAttributes(self) ==
    IF \E i \in 1..Len(self.names) :
           self.names[i].k # "" /\ self.names[i].k \in ExistingAttrs(self)
    THEN Raise("ValueError", "Attribute already exists for this object")
    ELSE NoExc

FinishPopulate(done) ==
    IF done.exc # NoExc THEN done ELSE Raised(done, NamesToAttributes(done.self))

\* _populate, lines 143-146: the list comprehension and its except clause;
\* after a caught TypeError `items` still is the tuple of raw literals
ParseArgs(items, parsed) ==
    IF parsed.exc.exc = "TypeError"
    THEN [raw |-> TRUE, exc |-> NoExc, items |-> items, heap |-> parsed.heap]
    ELSE [raw |-> FALSE, exc |-> parsed.exc, items |-> parsed.items,
          heap |-> parsed.heap]

\* _populate, lines 148-163
AfterParse(st, parsed) ==
    IF parsed.exc # NoExc
    THEN [st EXCEPT !.heap = parsed.heap, !.exc = parsed.exc]
    ELSE IF parsed.raw
    THEN \* item.type of a raw None, str, dict or other literal
         [st EXCEPT !.heap = parsed.heap,
                    !.exc = IF parsed.items = <<>> THEN NoExc
                            ELSE Raise("AttributeError", "type")]
    ELSE FinishPopulate(PopulateLoop([st EXCEPT !.heap = parsed.heap], parsed.items))

\* AutoLayout._populate
Populate(st, attrs, items) ==
    AfterParse(st, ParseArgs(items, ParseAll(attrs, items, st.heap)))

\* AutoBoxLayout.__init__ / AutoGridLayout.__init__ (AutoFormLayout: form=True)
Construct(cls, args, hp, lg) ==
    Populate([self |-> [ty |-> cls, form |-> (cls = "AutoFormLayout"),
                        names |-> <<>>, children |-> <<>>],
              heap |-> hp, log |-> lg, exc |-> NoExc],
             IF cls \in {"AutoGridLayout", "AutoFormLayout"}
             THEN AutoGridLayoutItem ELSE AutoLayoutItem,
             args)

----------------------------------------------------------------------------
(* the bulk accessors *)

IsComposite(x) ==
    x.ty \in {"AutoVBoxLayout", "AutoHBoxLayout", "AutoGridLayout", "AutoFormLayout"}

\* a dict a call returns: its entries in insertion order
Mapping(entries) == [ty |-> "dict", entries |-> entries]

RECURSIVE get_(_, _)
RECURSIVE GetLoop(_, _, _)

\* element.get_() for one registry entry: [exc, v];
\* exc is AttributeError when the element has no get_
ElementGet(element, hp) ==
    IF IsComposite(element) THEN get_(element, hp)
    ELSE IF element.ty \notin WidgetClasses
    THEN [exc |-> Raise("AttributeError", "get_"), v |-> None]
    ELSE LET o == hp[element.id]
         IN  CASE o.get_.src = "unset" ->
                    [exc |-> Raise("AttributeError", "get_"), v |-> None]
               [] o.get_.src = "item" ->
                    IF o.get_.fn.ty = "function"
                    THEN [exc |-> NoExc, v |-> UserResult(o.get_.fn.v)]
                    ELSE [exc |-> Raise("TypeError", "object is not callable"), v |-> None]
               [] o.get_.src = "own" -> [exc |-> NoExc, v |-> UserResult("get")]
               [] o.get_.src = "PROPERTIES" -> [exc |-> NoExc, v |-> TableGet(o)]

\* the loop of get_ over self.names.items(): [exc, entries]
GetLoop(names, hp, values) ==
    IF names = <<>> THEN [exc |-> NoExc, entries |-> values]
    ELSE LET got == ElementGet(Head(names).v, hp)
         IN  IF got.exc.exc = "AttributeError" THEN GetLoop(Tail(names), hp, values)
             ELSE IF got.exc # NoExc THEN [exc |-> got.exc, entries |-> values]
             ELSE GetLoop(Tail(names), hp, DSet(values, Head(names).k, got.v))

\* AutoLayout.get_: [exc, v]
get_(self, hp) ==
    LET r == GetLoop(self.names, hp, <<>>)
    IN  [exc |-> r.exc, v |-> IF r.exc = NoExc THEN Mapping(r.entries) ELSE None]

\* self.names[field].set_(value) for one entry of values: [exc, heap];
\* exc is KeyError / AttributeError when there is nothing to call
ElementSet(self, field, value, hp) ==
    IF ~DHas(self.names, field) THEN [exc |-> Raise("KeyError", field), heap |-> hp]
    ELSE LET element == DGet(self.names, field)
         IN  IF IsComposite(element)
             THEN \* set_(self, **values) takes no positional argument
                  [exc |-> Raise("TypeError", "set_() takes 1 positional argument but 2 were given"),
                   heap |-> hp]
             ELSE IF element.ty \notin WidgetClasses
             THEN [exc |-> Raise("AttributeError", "set_"), heap |-> hp]
             ELSE LET o == hp[element.id]
                  IN  CASE o.set_.src = "unset" ->
                             [exc |-> Raise("AttributeError", "set_"), heap |-> hp]
                        [] o.set_.src = "item" ->
                             IF o.set_.fn.ty = "function"
                             THEN [exc |-> NoExc,
                                   heap |-> [hp EXCEPT ![element.id].dstore = value]]
                             ELSE [exc |-> Raise("TypeError", "object is not callable"),
                                   heap |-> hp]
                        [] o.set_.src = "own" ->
                             [exc |-> NoExc,
                              heap |-> [hp EXCEPT ![element.id].ostore = value]]
                        [] o.set_.src = "PROPERTIES" ->
                             LET r == TableSet(o, value)
                             IN  [exc |-> r.exc, heap |-> [hp EXCEPT ![element.id] = r.o]]

\* AutoLayout.set_(**values): [exc, heap]
RECURSIVE set_(_, _, _)
set_(self, values, hp) ==
    IF values = <<>> THEN [exc |-> NoExc, heap |-> hp]
    ELSE LET r == ElementSet(self, Head(values).k, Head(values).v, hp)
         IN  IF r.exc.exc \in {"KeyError", "AttributeError"}
             THEN set_(self, Tail(values), hp)
             ELSE IF r.exc # NoExc THEN r
             ELSE set_(self, Tail(values), r.heap)

----------------------------------------------------------------------------
(* the operations a caller has *)

\* the most set_ calls a run makes
MaxSets == 1

\* <Class>(*args): the whole construction, to its return or its exception
Returned(r) ==
    /\ phase' = IF r.exc = NoExc THEN "built" ELSE "failed"
    /\ root' = IF r.exc = NoExc THEN r.self ELSE None
    /\ heap' = r.heap
    /\ log' = r.log
    /\ exc' = r.exc

Build ==
    /\ phase = "ready"
    /\ Returned(Construct(call.cls, call.args, heap, <<>>))
    /\ UNCHANGED <<call, out, sent, before, nsets>>

\* root.get_()
GetAll ==
    /\ phase = "built"
    /\ LET r == get_(root, heap)
       IN  /\ out' = r.v
           /\ exc' = r.exc
    /\ UNCHANGED <<call, phase, root, heap, log, sent, before, nsets>>

\* root.set_(**values)
SetAll(values) ==
    /\ phase = "built"
    /\ nsets < MaxSets
    /\ LET r == set_(root, values, heap)
       IN  /\ heap' = r.heap
           /\ exc' = r.exc
    /\ out' = None
    /\ sent' = Mapping(values)
    /\ before' = get_(root, heap).v
    /\ nsets' = nsets + 1
    /\ UNCHANGED <<call, phase, root, log>>

\* the values a caller tries on a registry entry: some its setter takes,
\* some it does not
ValuesFor(element) ==
    IF element.ty \in {"QLabel", "QLineEdit", "QPlainTextEdit", "QPushButton"}
    THEN <<PyStr("x"), PyInt(1)>>
    ELSE IF element.ty \in {"QRadioButton", "QCheckBox"}
    THEN <<PyBool(TRUE), PyStr("True"), PyInt(0)>>
    ELSE IF element.ty \in {"QComboBox", "QListWidget"}
    THEN <<PyStr("x"), PyStr("y"), PyStr("q")>>
    ELSE IF element.ty = "QSpinBox"
    THEN <<PyInt(1), PyStr("2"), PyStr("x")>>
    ELSE IF element.ty = "QDoubleSpinBox"
    THEN <<PyFloat(1), PyStr("2")>>
    ELSE <<PyStr("x")>>

\* the keyword arguments a caller gives set_: one entry, for a registered
\* name or for the unregistered name "zz", or two entries
SetInputs ==
    LET names == IF phase = "built" THEN root.names ELSE <<>>
        V(k) == IF DHas(names, k) THEN ValuesFor(DGet(names, k)) ELSE <<PyStr("x")>>
        K == DKeys(names) \cup {"zz"}
    IN  IF phase # "built" THEN {}
        ELSE UNION {{<<[k |-> k, v |-> V(k)[i]]>> : i \in 1..Len(V(k))} : k \in K} \cup
             UNION {{<<[k |-> k1, v |-> V(k1)[1]], [k |-> k2, v |-> V(k2)[1]]>> :
                         k2 \in K \ {k1}} : k1 \in K}

Next ==
    \/ Build
    \/ GetAll
    \/ \E values \in SetInputs : SetAll(values)

----------------------------------------------------------------------------
(* the literals a caller writes *)

\* the longest argument list the caller writes around the literal under test
MaxArgs == 2

NumWidgets == 2 * MaxArgs + 3

W(i) == Obj("QLineEdit", i)

\* the caller's widgets before any build: blank line edits
BlankHeap == [i \in 1..NumWidgets |-> NewWidget("QLineEdit", {}, "", <<>>)]

\* keys that let a record be a cell of a box, a grid and a form alike
Place == [row |-> PyInt(0), col |-> PyInt(0), label |-> PyStr("L")]

\* the name key; "-" stands for a record without one
Named(n) == IF n = "-" THEN <<>> ELSE [name |-> PyStr(n)]

Leaf(i, n) == PyDict(("WIDGET" :> W(i)) @@ Named(n) @@ Place)
Group(key, n, items) == PyDict((key :> PyList(items)) @@ Named(n) @@ Place)

\* every way to put x in an argument list of at most MaxArgs literals, the
\* others being pads[1], pads[2], ... in this order
Around(x, pads) ==
    {SubSeq(pads, 1, p[1]) \o <<x>> \o SubSeq(pads, p[1] + 1, p[1] + p[2]) :
        p \in {q \in (0..(MaxArgs - 1)) \X (0..(MaxArgs - 1)) : q[1] + q[2] < MaxArgs}}

Ready(heap0) ==
    /\ phase = "ready"
    /\ root = None
    /\ heap = heap0
    /\ log = <<>>
    /\ exc = NoExc
    /\ out = None
    /\ sent = None
    /\ before = None
    /\ nsets = 0

----------------------------------------------------------------------------
(* trees of named leaves and nested composites *)

\* a layout the caller built beforehand, passed through under LAYOUT
Prebuilt ==
    Construct("AutoVBoxLayout", <<Leaf(NumWidgets, "p")>>, BlankHeap, <<>>)

NameOpts == {"a", "b", "-"}

\* the argument lists of the innermost composites: leaves 1 .. k
Cores ==
    UNION {{[j \in 1..k |-> Leaf(j, f[j])] : f \in [1..k -> NameOpts]} : k \in 0..MaxArgs}

Nested1 ==
    {Group(key, n, c) : key \in {"VBOXLAYOUT", "FORMLAYOUT"}, n \in {"-", "g"}, c \in Cores}

Nested2 ==
    {Group(key, n, <<g>>) : key \in {"HBOXLAYOUT", "GRIDLAYOUT"}, n \in {"-", "h"}, g \in Nested1}

NameItems ==
    {Leaf(MaxArgs + 1, n) : n \in NameOpts \cup {""}}
    \cup Nested1 \cup Nested2
    \cup {PyStr("hello"),
          PyDict(("LAYOUT" :> Prebuilt.self) @@ Place),
          PyDict(("LAYOUT" :> Prebuilt.self) @@ Named("q") @@ Place),
          PyDict(("LAYOUT" :> Obj("QVBoxLayout", 0)) @@ Place)}

NameCompanions ==
    {Leaf(MaxArgs + 2, n) : n \in {"a", "b", "names"}}
    \cup {Group("VBOXLAYOUT", n, <<Leaf(MaxArgs + 2, "a")>>) : n \in {"-", "g"}}

NameLists ==
    {<<x>> : x \in NameItems}
    \cup {<<x, y>> : x \in NameItems, y \in NameCompanions}
    \cup {<<y, x>> : x \in NameItems, y \in NameCompanions}

InitNames ==
    /\ call \in {[cls |-> "AutoVBoxLayout", args |-> l] : l \in NameLists}
    /\ Ready(Prebuilt.heap)

SpecNames == InitNames /\ [][Next]_vars

----------------------------------------------------------------------------
(* reading a tree of literals, as the claims speak of it *)

IsRecord(l) == l.ty = "dict" /\ Cardinality(KeyList(l.v)) = 1
KindOf(l) == Lower[CHOOSE k \in KeyList(l.v) : TRUE]
PayloadOf(l) == l.v[CHOOSE k \in KeyList(l.v) : TRUE]
NameOf(l) == IF "name" \in DOMAIN l.v THEN l.v.name.v ELSE ""
IsLeafLit(l) == IsRecord(l) /\ KindOf(l) = "widget"
IsGroupLit(l) ==
    IsRecord(l) /\ KindOf(l) \in {"vboxlayout", "hboxlayout", "formlayout", "gridlayout"}
IsPassLit(l) == IsRecord(l) /\ KindOf(l) = "layout"

HasRepeat(seq) == \E i, j \in 1..Len(seq) : i < j /\ seq[i] = seq[j]
Repeated(seq) == {seq[i] : i \in {k \in 1..Len(seq) : \E j \in 1..Len(seq) : j # k /\ seq[j] = seq[k]}}

\* the non-empty names of all leaves of a tree, whatever encloses them
RECURSIVE AllLeafNames(_)
AllLeafNames(items) ==
    IF items = <<>> THEN <<>>
    ELSE (IF IsLeafLit(Head(items)) /\ NameOf(Head(items)) # ""
          THEN <<NameOf(Head(items))>>
          ELSE IF IsGroupLit(Head(items)) THEN AllLeafNames(PayloadOf(Head(items)).v)
          ELSE <<>>)
         \o AllLeafNames(Tail(items))

\* the names an argument list defines in the composite built from it: those
\* of its named records, and those unnamed composites pass up
RECURSIVE Visible(_)
Visible(items) ==
    IF items = <<>> THEN <<>>
    ELSE (IF ~IsRecord(Head(items)) THEN <<>>
          ELSE IF NameOf(Head(items)) # "" THEN <<NameOf(Head(items))>>
          ELSE IF IsGroupLit(Head(items)) THEN Visible(PayloadOf(Head(items)).v)
          ELSE IF IsPassLit(Head(items)) /\ HasNames(PayloadOf(Head(items)))
          THEN [i \in 1..Len(PayloadOf(Head(items)).names) |->
                    PayloadOf(Head(items)).names[i].k]
          ELSE <<>>)
         \o Visible(Tail(items))

\* the names some composite of the tree would hold twice
RECURSIVE Collisions(_)
Collisions(items) ==
    Repeated(Visible(items))
    \cup UNION {Collisions(PayloadOf(items[i]).v) :
                    i \in {k \in 1..Len(items) : IsGroupLit(items[k])}}

\* the composites of a built tree: the node and every composite attached below it
RECURSIVE Composites(_)
Composites(node) ==
    {node} \cup UNION {Composites(node.children[i].obj) :
                           i \in {k \in 1..Len(node.children) :
                                      IsComposite(node.children[k].obj)}}

UniqueKeys(names) == ~HasRepeat([i \in 1..Len(names) |-> names[i].k])

----------------------------------------------------------------------------
(* C1 *)

----------------------------------------------------------------------------
(* C10 *)

\* what the claim says an argument list puts in the registry, in order: a
\* named record its one entry (for a nested composite: a composite of the
\* record's kind, whose own registry is what its argument list puts there),
\* an unnamed nested composite the entries of its registry, anything else
\* nothing
RECURSIVE Contribution(_)

ContributionOf(l) ==
    IF ~IsRecord(l) THEN <<>>
    ELSE IF NameOf(l) # "" /\ IsGroupLit(l)
    THEN <<[k |-> NameOf(l), nested |-> TRUE, cls |-> LayoutClass(KindOf(l)),
            inner |-> Contribution(PayloadOf(l).v)]>>
    ELSE IF NameOf(l) # ""
    THEN <<[k |-> NameOf(l), nested |-> FALSE, v |-> PayloadOf(l)]>>
    ELSE IF IsGroupLit(l) THEN Contribution(PayloadOf(l).v)
    ELSE IF IsPassLit(l) /\ HasNames(PayloadOf(l))
    THEN [i \in 1..Len(PayloadOf(l).names) |->
              [k |-> PayloadOf(l).names[i].k, nested |-> FALSE,
               v |-> PayloadOf(l).names[i].v]]
    ELSE <<>>

Contribution(items) ==
    IF items = <<>> THEN <<>>
    ELSE ContributionOf(Head(items)) \o Contribution(Tail(items))

RECURSIVE Holds(_, _)
Holds(names, expected) ==
    /\ Len(names) = Len(expected)
    /\ \A i \in 1..Len(names) :
           /\ names[i].k = expected[i].k
           /\ IF expected[i].nested
              THEN /\ names[i].v.ty = expected[i].cls
                   /\ Holds(names[i].v.names, expected[i].inner)
              ELSE names[i].v = expected[i].v

----------------------------------------------------------------------------
(* trees holding one malformed literal *)

RootClasses == {"AutoVBoxLayout", "AutoHBoxLayout", "AutoGridLayout", "AutoFormLayout"}
GroupKeys == {"VBOXLAYOUT", "HBOXLAYOUT", "GRIDLAYOUT", "FORMLAYOUT"}

\* records without an upper-case key, and with two of them
BadShapes ==
    {PyDict([name |-> PyStr("n")] @@ Place),
     PyDict(Place),
     PyDict(("WIDGET" :> W(NumWidgets)) @@ ("STRETCH" :> None) @@ Place),
     PyDict(("WIDGET" :> W(NumWidgets)) @@ ("VBOXLAYOUT" :> PyList(<<>>))
            @@ Named("n") @@ Place)}

\* literals that are neither null, a string nor a record
OtherLiterals == {PyInt(7), PyFloat(1), PyBool(TRUE), PyList(<<>>), W(NumWidgets)}

\* well-formed siblings, acceptable to every composite kind
Pads == [i \in 1..MaxArgs |-> Leaf(i, "-")]
PadsBelow == [i \in 1..MaxArgs |-> Leaf(MaxArgs + i, "-")]

\* x in an argument list, directly or one or two grouping literals down
Depth0(x) == Around(x, Pads)
Depth1(x) ==
    UNION {Around(Group(key, "-", l), Pads) : key \in GroupKeys, l \in Around(x, PadsBelow)}
Depth2(x) ==
    UNION {Around(Group(key, "-", <<Group("VBOXLAYOUT", "-", <<x>>)>>), Pads) :
               key \in GroupKeys}

ShapeLists ==
    UNION {Depth0(x) \cup Depth1(x) \cup Depth2(x) : x \in BadShapes \cup OtherLiterals}
    \cup Depth0(Leaf(NumWidgets, "w")) \cup Depth1(Leaf(NumWidgets, "w"))

InitShape ==
    /\ call \in {[cls |-> c, args |-> l] : c \in RootClasses, l \in ShapeLists}
    /\ Ready(BlankHeap)

SpecShape == InitShape /\ [][Next]_vars

\* where the tree holds a literal of the set S in a place the build reads:
\* an argument, or an argument of a nested grouping literal
RECURSIVE Holding(_, _)
HoldingIn(l, S) ==
    \/ l \in S
    \/ IsRecord(l) /\ IsGroupLit(l) /\ Holding(PayloadOf(l).v, S)

Holding(items, S) == \E i \in 1..Len(items) : HoldingIn(items[i], S)

InvalidShape ==
    Raise("ValueError", "Must have exactly one key in all caps for item type")

\* C3: a tree, well-formed but for one record with no or with several
\* upper-case keys, never builds: whatever the root's kind, the record's
\* position and its depth under grouping literals, the call raises the
\* shape error and returns no composite.
C3_InvalidShape ==
    (phase # "ready" /\ Holding(call.args, BadShapes))
        => (phase = "failed" /\ exc = InvalidShape /\ root = None)

\* a two-key record, second in the list of a box inside a grid inside a form root
C3_Witness ==
    /\ phase = "failed" /\ exc = InvalidShape
    /\ call.cls = "AutoFormLayout"
    /\ Len(call.args) = 2
    /\ IsRecord(call.args[2]) /\ KindOf(call.args[2]) = "gridlayout"
    /\ Holding(PayloadOf(call.args[2]).v, BadShapes)
    /\ ~(PayloadOf(call.args[2]).v[1] \in BadShapes)
    /\ \E e \in DOMAIN log : log[e].ev = "attach"

\* C8 as stated: a literal of another type among the root's arguments makes
\* the build fail with the type error, before any child is attached.
C8_TypeErrorSurfaces ==
    (phase # "ready" /\ \E i \in 1..Len(call.args) : call.args[i] \in OtherLiterals)
        => (phase = "failed" /\ exc.exc = "TypeError" /\ log = <<>>)

\* an integer after a leaf: the build ends in an AttributeError for the
\* attribute `type`, which the leaf, unparsed, does not have
C8_AttributeErrorInstead ==
    /\ phase = "failed" /\ exc = Raise("AttributeError", "type")
    /\ Len(call.args) = 2
    /\ IsLeafLit(call.args[1]) /\ call.args[2] = PyInt(7)
    /\ log = <<>>

----------------------------------------------------------------------------
(* argument lists of every kind of literal, in every kind of composite *)

Cell(r, c) == [row |-> PyInt(r), col |-> PyInt(c), label |-> PyStr("L")]

\* the cells a record may name, and the ways to leave row or col out
PlaceOpts ==
    {Cell(0, 0), Cell(1, 2), [col |-> PyInt(0), label |-> PyStr("L")],
     [row |-> PyInt(0), label |-> PyStr("L")], [label |-> PyStr("L")],
     [row |-> PyInt(0), col |-> PyInt(0)]}

InitOpts == {<<>>, [init |-> PyFn("f")]}

\* the payload under each kind key; SPACER is a kind add_item does not know
KindPayload ==
    [WIDGET |-> W(MaxArgs + 1), STRETCH |-> None, SPACER |-> W(MaxArgs + 1),
     VBOXLAYOUT |-> PyList(<<PyDict(("WIDGET" :> W(MaxArgs + 2)) @@ Cell(0, 0))>>),
     LAYOUT |-> Prebuilt.self]

KindItems ==
    {None, PyStr("hello")}
    \cup {PyDict((key :> KindPayload[key]) @@ i @@ pl) :
              key \in DOMAIN KindPayload, i \in InitOpts, pl \in PlaceOpts}

\* siblings: leaves with an init callback, each in a cell of its own, and nulls
PadNames == <<"a", "b", "c", "d">>
LeafPads ==
    [i \in 1..MaxArgs |->
        PyDict(("WIDGET" :> W(i)) @@ [init |-> PyFn("g")] @@ Named(PadNames[i])
               @@ Cell(i + 2, i))]
NullPads == [i \in 1..MaxArgs |-> None]

KindLists == UNION {Around(x, LeafPads) \cup Around(x, NullPads) : x \in KindItems}

InitKinds ==
    /\ call \in {[cls |-> c, args |-> l] : c \in RootClasses, l \in KindLists}
    /\ Ready(Prebuilt.heap)

SpecKinds == InitKinds /\ [][Next]_vars

IsBox(cls) == cls \in {"AutoVBoxLayout", "AutoHBoxLayout"}

\* what add_item passes to the init callback of a record literal
InitArgMatches(arg, l) ==
    IF IsGroupLit(l) THEN IsComposite(arg) /\ arg.ty = LayoutClass(KindOf(l))
    ELSE arg = PayloadOf(l)

HasInit(l) == IsRecord(l) /\ "init" \in DOMAIN l.v

InitEvents(l) ==
    {e \in DOMAIN log : log[e].ev = "init" /\ log[e].obj.fn = l.v.init.v
                        /\ InitArgMatches(log[e].obj.arg, l)}

AttachedBefore(e) ==
    \E a \in 1..(e - 1) : log[a].ev = "attach" /\ log[a].obj = log[e].obj.arg

ResolvedBefore(e, l) ==
    IsLeafLit(l) => \E a \in 1..(e - 1) : log[a].ev = "resolve" /\ log[a].obj = log[e].obj.arg

\* C5 as stated: in a successful build every record with an init callback,
\* whatever its kind, has the callback invoked exactly once with its
\* payload, after the payload was attached (and, for a leaf, resolved); no
\* callback is invoked with a payload that was not attached.
C5_InitOnceAfterAttach ==
    phase = "built" =>
        /\ \A i \in 1..Len(call.args) :
               HasInit(call.args[i]) =>
                   /\ Cardinality(InitEvents(call.args[i])) = 1
                   /\ \A e \in InitEvents(call.args[i]) :
                          AttachedBefore(e) /\ ResolvedBefore(e, call.args[i])
        /\ \A e \in DOMAIN log : log[e].ev = "init" => AttachedBefore(e)

\* a stretch record's callback is never invoked
C5_StretchSkipsInit ==
    /\ phase = "built"
    /\ \E i \in 1..Len(call.args) :
           HasInit(call.args[i]) /\ KindOf(call.args[i]) = "stretch"
           /\ InitEvents(call.args[i]) = {}

\* the callback of a record of an unknown kind is invoked though nothing was attached
C5_UnknownKindInit ==
    /\ phase = "built"
    /\ \E i \in 1..Len(call.args) :
           HasInit(call.args[i]) /\ KindOf(call.args[i]) = "spacer"
           /\ \E e \in InitEvents(call.args[i]) : ~AttachedBefore(e)

\* the child a literal leaves in the composite's sequence of children
LeavesChild(l) ==
    ~IsRecord(l) \/ KindOf(l) \in {"widget", "stretch", "layout"} \/ IsGroupLit(l)

\* the place among the children of what argument i left there
ChildIndex(args, i) == Cardinality({j \in 1..i : LeavesChild(args[j])})

Nulls(args) == {i \in 1..Len(args) : args[i] = None}

\* C7 as stated: a null among the arguments of a composite of any kind
\* never fails the build, leaves a spacer at its position and no name.
C7_NullAnyKind ==
    (phase # "ready" /\ Nulls(call.args) # {})
        => /\ phase = "built"
           /\ \A i \in Nulls(call.args) :
                  root.children[ChildIndex(call.args, i)].what = "stretch"
           /\ Holds(root.names, Contribution(call.args))

\* C7, as amended: in a vertical or horizontal box a null at any position
\* leaves a spacer of weight 1 at that position and no name, and the build
\* succeeds; a grid or a form rejects it when it validates the cell
\* (no row and col, or no label) and returns no composite.
C7_NullInBox ==
    (phase # "ready" /\ Nulls(call.args) # {})
        => IF IsBox(call.cls)
           THEN /\ phase = "built"
                /\ Len(root.children) = ChildIndex(call.args, Len(call.args))
                /\ \A i \in Nulls(call.args) :
                       root.children[ChildIndex(call.args, i)] =
                           [what |-> "stretch", obj |-> None, args |-> <<PyInt(1)>>]
                /\ Holds(root.names, Contribution(call.args))
           ELSE /\ phase = "failed" /\ root = None
                /\ exc = Raise("ValueError", "Invalid type provided for attribute")

\* a horizontal box of a named leaf and a null after it: leaf, then spacer
C7_Witness ==
    /\ phase = "built" /\ call.cls = "AutoHBoxLayout"
    /\ Len(call.args) = 2 /\ call.args[2] = None
    /\ Len(root.children) = 2
    /\ root.children[1].what = "widget"
    /\ root.children[2].what = "stretch"
    /\ Len(root.names) = 1 /\ DHas(root.names, "a")

\* the literals that give a grid no cell: nulls, strings and records
\* without row or without col
Omits(l) == ~IsRecord(l) \/ "row" \notin DOMAIN l.v \/ "col" \notin DOMAIN l.v

\* the object a record hands to the composite is among its children at the
\* record's (row, col)
ObjMatches(obj, l) ==
    IF IsGroupLit(l) THEN IsComposite(obj) /\ obj.ty = LayoutClass(KindOf(l))
    ELSE obj = PayloadOf(l)

AtCell(l) ==
    \E c \in DOMAIN root.children :
        /\ root.children[c].args = <<l.v.row, l.v.col>>
        /\ ObjMatches(root.children[c].obj, l)

\* what the build attached of a literal, the text of a string included
PayloadAttached(l) ==
    \E e \in DOMAIN log :
        /\ log[e].ev = "attach"
        /\ IF ~IsRecord(l) THEN l.ty = "str" /\ log[e].obj.ty = "QLabel"
           ELSE IF IsGroupLit(l) THEN IsComposite(log[e].obj) /\ log[e].obj # Prebuilt.self
           ELSE log[e].obj = PayloadOf(l)

GridRejects ==
    (phase # "ready" /\ call.cls = "AutoGridLayout"
     /\ \E i \in 1..Len(call.args) : Omits(call.args[i]))
        => /\ phase = "failed" /\ root = None
           /\ exc = Raise("ValueError", "Invalid type provided for attribute")
           /\ \A i \in 1..Len(call.args) :
                  Omits(call.args[i]) => ~PayloadAttached(call.args[i])

\* C9 as stated: in a plain grid every child record with integer row and
\* col is attached at that cell, and a literal without row or col fails
\* the validation before it is attached.
C9_EveryRecord ==
    /\ (phase = "built" /\ call.cls = "AutoGridLayout")
           => \A i \in 1..Len(call.args) : AtCell(call.args[i])
    /\ GridRejects

Attaches(l) == IsLeafLit(l) \/ IsGroupLit(l) \/ IsPassLit(l)

\* C9, as amended: in a plain grid a leaf, grouping or pass-through record
\* with integer row and col is attached at exactly that cell; a record of
\* the stretch kind or of an unknown kind is accepted with its row and col
\* and leaves no child; every null, string or record without row or col
\* fails the validation with nothing of it attached, and no grid is returned.
C9_GridCells ==
    /\ (phase = "built" /\ call.cls = "AutoGridLayout")
           => /\ \A i \in 1..Len(call.args) :
                     Attaches(call.args[i]) => AtCell(call.args[i])
              /\ Len(root.children) =
                     Cardinality({i \in 1..Len(call.args) : Attaches(call.args[i])})
    /\ GridRejects

\* a grid of two leaves, the second at row 1, column 2
C9_Witness ==
    /\ phase = "built" /\ call.cls = "AutoGridLayout"
    /\ Len(call.args) = 2
    /\ IsLeafLit(call.args[2])
    /\ Len(root.children) = 2
    /\ root.children[2] = [what |-> "widget", obj |-> W(MaxArgs + 1),
                           args |-> <<PyInt(1), PyInt(2)>>]

----------------------------------------------------------------------------
(* one named leaf of every class, read and written through the registry *)

\* the leaf under test is widget 1, the other named leaf widget 2
TableClasses == DOMAIN PROPERTIES
LeafClasses == TableClasses \cup {"QPushButton"}

Entries == <<"x", "y">>

\* a new widget of the class: empty text, unchecked, value 0, no current
\* item in a list, the first entry current in a combo box
Fresh(cls, own) ==
    CASE cls \in {"QLabel", "QLineEdit", "QPlainTextEdit", "QPushButton"} ->
           NewWidget(cls, own, "", <<>>)
      [] cls \in {"QRadioButton", "QCheckBox"} -> NewWidget(cls, own, FALSE, <<>>)
      [] cls = "QComboBox" -> NewWidget(cls, own, 0, Entries)
      [] cls = "QListWidget" -> NewWidget(cls, own, -1, Entries)
      [] cls \in {"QSpinBox", "QDoubleSpinBox"} -> NewWidget(cls, own, 0, <<>>)

\* the accessors the payload exposes itself, and those the record supplies
OwnOpts == {{}, {"get"}, {"set"}, {"get", "set", "changed"}}
SuppliedOpts ==
    {<<>>, [get |-> PyFn("iget")], [set |-> PyFn("iset")],
     [get |-> PyFn("iget"), set |-> PyFn("iset"), changed |-> PyFn("isignal")]}

LeafA(cls, supplied) ==
    PyDict(("WIDGET" :> Obj(cls, 1)) @@ Named("a") @@ supplied @@ Place)
LeafB == PyDict(("WIDGET" :> Obj("QLineEdit", 2)) @@ Named("b") @@ Place)

BulkLists(a) ==
    {<<a>>, <<a, LeafB>>,
     <<Group("FORMLAYOUT", "-", <<a>>), LeafB>>,
     <<Group("HBOXLAYOUT", "-", <<Group("GRIDLAYOUT", "-", <<a>>)>>), LeafB>>,
     <<Group("VBOXLAYOUT", "g", <<a>>), LeafB>>}

InitBulk ==
    \E cls \in LeafClasses, own \in OwnOpts, supplied \in SuppliedOpts :
        /\ call \in {[cls |-> "AutoVBoxLayout", args |-> l] :
                        l \in BulkLists(LeafA(cls, supplied))}
        /\ Ready(<<Fresh(cls, own), Fresh("QLineEdit", {})>>)

SpecBulk == InitBulk /\ [][Next]_vars

\* the record of the leaf under test, read back from the call
RECURSIVE FirstLeaf(_)
FirstLeaf(l) == IF IsLeafLit(l) THEN l ELSE FirstLeaf(PayloadOf(l).v[1])

TheLeaf == FirstLeaf(call.args[1])
TheClass == PayloadOf(TheLeaf).ty

\* where the claim says the accessor of a kind comes from
Source(kind) ==
    IF kind \in DOMAIN TheLeaf.v THEN "item"
    ELSE IF kind \in heap[1].own THEN "own"
    ELSE IF TheClass \in TableClasses /\ kind \in PROPERTIES[TheClass] THEN "PROPERTIES"
    ELSE "unset"

ResolvedFrom(acc, kind) ==
    /\ acc.src = Source(kind)
    /\ acc.src = "item" => acc.fn = TheLeaf.v[kind]

\* what a read of the leaf returns, by the source of its getter
Reads(v) ==
    CASE Source("get") = "item" -> v = UserResult("iget")
      [] Source("get") = "own" -> v = UserResult("get")
      [] Source("get") = "PROPERTIES" -> v = TableGet(heap[1])

Untouched(o) == o = ResolveAll(TheLeaf.v, Fresh(o.cls, o.own))

OnlyTo(name) == sent # None /\ \A i \in 1..Len(sent.entries) : sent.entries[i].k = name

\* C6: each of get, set and changed of a leaf is taken from the record when
\* it supplies one, else from the payload when it exposes one, else from the
\* table entry of the payload's class, else left unset; getAll then returns
\* the name with what that getter reads, or omits the name when no getter
\* was resolved; with no setter resolved, setAll for that name leaves the
\* leaf as it was and raises nothing.
C6_Precedence ==
    phase = "built" =>
        /\ ResolvedFrom(heap[1].get_, "get")
        /\ ResolvedFrom(heap[1].set_, "set")
        /\ ResolvedFrom(heap[1].changed_, "changed")
        /\ (out # None /\ DHas(root.names, "a")) =>
               IF Source("get") = "unset" THEN ~DHas(out.entries, "a")
               ELSE DHas(out.entries, "a") /\ Reads(DGet(out.entries, "a"))
        /\ Source("set") = "unset" =>
               /\ Untouched(heap[1])
               /\ (OnlyTo("a") /\ out = None) => exc = NoExc

\* a push button whose record supplies get only: getAll reads it through
\* the record's getter, and a setAll to it did nothing
C6_Witness ==
    /\ phase = "built" /\ TheClass = "QPushButton"
    /\ Source("get") = "item" /\ Source("set") = "unset" /\ Source("changed") = "unset"
    /\ nsets = 1 /\ OnlyTo("a") /\ DHas(root.names, "a")
    /\ out # None /\ DHas(out.entries, "a")

\* the values the table's setter of a class is meant for
Domain(cls) ==
    CASE cls \in {"QLabel", "QLineEdit", "QPlainTextEdit"} -> {PyStr("x")}
      [] cls \in {"QRadioButton", "QCheckBox"} -> {PyBool(TRUE), PyBool(FALSE)}
      [] cls \in {"QComboBox", "QListWidget"} -> {PyStr(Entries[i]) : i \in DOMAIN Entries}
      [] cls = "QSpinBox" -> {PyInt(1)}
      [] cls = "QDoubleSpinBox" -> {PyFloat(1)}
      [] OTHER -> {}

OthersKept ==
    \A k \in DKeys(out.entries) \ {"a"} :
        DHas(before.entries, k) /\ DGet(out.entries, k) = DGet(before.entries, k)

\* C4 as stated: for a leaf of any class of the table, with getter and
\* setter from the table, setAll({a: v}) with v in the class's domain and
\* then getAll() gives v under a and leaves every other entry as it was.
C4_RoundTrip ==
    (/\ phase = "built" /\ DHas(root.names, "a")
     /\ Source("get") = "PROPERTIES" /\ Source("set") = "PROPERTIES"
     /\ nsets = 1 /\ out # None
     /\ sent.entries \in {<<[k |-> "a", v |-> v]>> : v \in Domain(TheClass)})
        => /\ exc = NoExc
           /\ DHas(out.entries, "a") /\ DGet(out.entries, "a") = sent.entries[1].v
           /\ OthersKept

\* a list widget set to "x" reads back as its current item object
C4_ListReadsItem ==
    /\ phase = "built" /\ TheClass = "QListWidget" /\ DHas(root.names, "a")
    /\ nsets = 1 /\ sent = Mapping(<<[k |-> "a", v |-> PyStr("x")]>>)
    /\ out # None /\ DHas(out.entries, "a")
    /\ DGet(out.entries, "a") = [ty |-> "QListWidgetItem", text |-> "x"]

\* the entries the claim lists: a name the registry lacks, a leaf without a
\* setter, a nested composite, and a value of the domain of a leaf's class
Listed(e) ==
    \/ ~DHas(root.names, e.k)
    \/ IsComposite(DGet(root.names, e.k))
    \/ heap[DGet(root.names, e.k).id].set_.src # "PROPERTIES"
    \/ e.v \in Domain(DGet(root.names, e.k).ty)

\* C2 as stated: getAll and setAll complete without raising, whatever the
\* registry holds and whichever of the listed entries the mapping has.
C2_Total ==
    (phase = "built" /\ (sent # None => \A i \in 1..Len(sent.entries) : Listed(sent.entries[i])))
        => exc = NoExc

\* setAll for the name of a nested composite raises
C2_NestedRaises ==
    /\ phase = "built" /\ nsets = 1
    /\ sent = Mapping(<<[k |-> "g", v |-> PyStr("x")]>>)
    /\ IsComposite(DGet(root.names, "g"))
    /\ exc.exc = "TypeError"

====
